---- MODULE Spec2Model ----
(***************************************************************************)
(* Session broker of mcp-ipython (server.py): the module-level worker      *)
(* handle km / client kc, start_ipython_kernel, shutdown_ipython_kernel    *)
(* and the send_command coroutine, together with the worker (IPython       *)
(* kernel) that answers on the notification (IOPub) and reply (shell)      *)
(* streams.  send_command is a coroutine on one event loop: the steps of   *)
(* the model are its segments between two awaits, so that calls of         *)
(* different callers interleave exactly where the event loop may switch.   *)
(* Clock values are in ticks of 0.1 s.                                     *)
(***************************************************************************)
EXTENDS Integers, Sequences, FiniteSets, TLC

\* ---- bounds of the model ----
MaxCalls == 2          \* tool calls issued in one run
MaxInst == 3           \* worker processes launched in one run (the first by main)

\* ---- program constants (ticks of 0.1 s) ----
IopubTimeout == 100    \* iopub_timeout_duration = 10.0
PollTimeout == 5       \* kc.get_iopub_msg(timeout=0.5)
SleepTime == 1         \* asyncio.sleep(0.1)

Callers == {"a", "b"}
Cmds == {"def", "read"}     \* "x = 42"  and  "print(x)"
ResetCmdDefines == "def"
ResetCmd == "reset"         \* "%reset -f", the command clear_kernel sends
NoInst == 0 - 1             \* km / kc is None
NoProc == 0                 \* a KernelManager whose process was never launched
NoId == 0                   \* no correlation id

VARIABLES
    km,         \* global km: NoInst, NoProc, or the instance it manages
    kc,         \* global kc: NoInst, or the instance its channels connect to
    chan,       \* kc.channels_running
    alive,      \* instances whose process is alive
    launched,   \* number of worker processes launched so far
    worker,     \* the newest worker: [inbox, phase, x, count]
    iopubQ,     \* messages waiting on kc's notification stream
    shellQ,     \* messages waiting on kc's reply stream
    nextId,     \* next correlation id handed out by kc.execute
    history,    \* text of the history file after the header, symbol by symbol
    callsLeft,  \* calls the callers may still issue
    pc,         \* per caller: position in send_command
    cmd,        \* per caller: the command argument
    msgId,      \* per caller: msg_id
    outputs,    \* per caller: the list outputs
    idleSeen,   \* per caller: kernel_reported_idle_for_request
    elapsed,    \* per caller: time.monotonic() - iopub_start_time
    result,     \* per caller: the returned text (lines)
    aux,        \* per caller: bookkeeping of what the call did (observation only)
    okDef,      \* instance on which a defining call returned Status: ok (observation only)
    exited,     \* the interpreter has exited and the atexit handler has run
    log         \* what was submitted, signalled and answered so far (observation only)

vars == <<km, kc, chan, alive, launched, worker, iopubQ, shellQ, nextId, history,
          callsLeft, pc, cmd, msgId, outputs, idleSeen, elapsed, result, aux, okDef,
          exited, log>>

globals == <<km, kc, chan, alive, launched>>
streams == <<worker, iopubQ, shellQ, nextId>>
locals == <<cmd, msgId, outputs, idleSeen, elapsed, result>>

\* ---------------------------------------------------------------------
\* Lines of text.  A line is a record: t is the text as a sequence of
\* words; k, p and n record where the line came from (observation only):
\* k the part of send_command that made it, p the parent correlation id
\* of the message it was derived from, n that message's place in the
\* worker's emission order.
\* ---------------------------------------------------------------------
Line(kind, words, parent, ord) == [k |-> kind, t |-> words, p |-> parent, n |-> ord]

\* place of a notification in the emission order of its request
EmitOrd(m) ==
    IF m.ty = "status" /\ m.v = "busy" THEN 1
    ELSE IF m.ty = "status" THEN 3
    ELSE 2

\* line 148: iopub_msg['parent_header'].get('msg_id') == msg_id
MatchesAny(m, id) == TRUE
Matches(m, id) == m.p = id

\* lines 153-176: the lines one matching notification contributes
NotifLinesNoText(m) ==
    IF m.ty = "status" THEN
        << Line("notif", <<"Kernel", "Status:", m.v>>, m.p, EmitOrd(m)) >>
    ELSE << Line("notif", <<"Stdout:">>, m.p, EmitOrd(m)) >>
NotifLines(m) ==
    IF m.ty = "status" THEN
        << Line("notif", <<"Kernel", "Status:", m.v>>, m.p, EmitOrd(m)) >>
    ELSE IF m.ty = "stream" THEN
        << Line("notif", <<"Stdout:", m.v>>, m.p, EmitOrd(m)) >>
    ELSE IF m.ty = "error" THEN
        << Line("notif", <<"IOPub", "Error:", m.v, "-", "undefined">>, m.p, EmitOrd(m)),
           Line("notif", <<"IOPub", "Traceback:">>, m.p, EmitOrd(m)) >>
    ELSE << >>

\* line 140
MarkerLine == Line("marker", <<"(Overall", "timeout", "waiting", "for", "IOPub)">>, NoId, 0)
\* line 191
IopubFaultLine == Line("fault", <<"Exception", "while", "processing", "IOPub", "message:">>, NoId, 0)

\* lines 201, 213, 216, 219: outputs.insert(0, f"Status: ...")
InsertLast(outs, ln) == Append(outs, ln)
InsertFirst(outs, ln) == <<ln>> \o outs

\* a status token such as error_shell_reply_timeout is the word sequence
\* <<"error", "shell", "reply", "timeout">>
StatusLineBare(token, parent) == Line("status", token, parent, 0)
StatusLine(token, parent) == Line("status", <<"Status:">> \o token, parent, 0)

\* line 200-201: the token of a matching reply is its content['status']
ReplyToken(r) == <<r.status>>

\* lines 203-211: detail lines of a matching reply
ReplyDetailNone(r) == << >>
ReplyDetail(r) ==
    IF r.status = "error" THEN
        << Line("reply", <<"Shell", "Error", "Name:", r.ename>>, r.p, 0),
           Line("reply", <<"Shell", "Error", "Value:", "undefined">>, r.p, 0),
           Line("reply", <<"Shell", "Traceback:">>, r.p, 0) >>
    ELSE IF r.status = "ok" THEN
        << Line("reply", <<"Execution", "Count:", ToString(r.count)>>, r.p, 0) >>
    ELSE << >>

\* lines 198-214: outputs after a reply r was read from the reply stream
AfterReplyTrusting(outs, r, id) == InsertFirst(outs, StatusLine(ReplyToken(r), r.p)) \o ReplyDetail(r)
AfterReply(outs, r, id) ==
    IF r.p = id
    THEN InsertFirst(outs, StatusLine(ReplyToken(r), r.p)) \o ReplyDetail(r)
    ELSE Append(InsertFirst(outs, StatusLine(<<"error", "shell", "reply", "mismatch">>, r.p)),
                Line("reply", <<"Shell", "reply", "was", "not", "for", "the", "current", "command">>, r.p, 0))

\* lines 215-217
AfterReplyTimeout(outs) ==
    Append(InsertFirst(outs, StatusLine(<<"error", "shell", "reply", "timeout">>, NoId)),
           Line("reply", <<"Timeout", "waiting", "for", "shell", "reply">>, NoId, 0))

\* lines 218-221
AfterReplyFault(outs) ==
    Append(InsertFirst(outs, StatusLine(<<"error", "shell", "reply", "exception">>, NoId)),
           Line("reply", <<"Exception", "while", "getting", "shell", "reply:">>, NoId, 0))

\* line 223: "\n".join(filter(None, outputs)): empty lines are dropped
Join(outs) == SelectSeq(outs, LAMBDA ln : Len(ln.t) > 0)

\* lines 104, 107, 125: the texts returned before any submission
RestartedText == << Line("early", <<"Error:", "IPython", "kernel", "was", "not", "running.",
                                    "It", "has", "been", "restarted.">>, NoId, 0) >>
RestartFailedText == << Line("early", <<"Error:", "IPython", "kernel", "not", "available",
                                        "and", "failed", "to", "restart:">>, NoId, 0) >>
NotReadyText == << Line("early", <<"Error:", "Failed", "to", "ensure", "kernel", "client",
                                   "readiness.">>, NoId, 0) >>

\* ---------------------------------------------------------------------
\* The worker handle: start_ipython_kernel and shutdown_ipython_kernel
\* ---------------------------------------------------------------------
FreshWorker == [inbox |-> << >>, phase |-> 0, x |-> FALSE, count |-> 0]

\* line 39 (and 71, 98): km.is_alive()
KmAlive == km \in alive

\* lines 71-72: km.shutdown_kernel(now=True) is called when km.is_alive()
SignalSentBlindly(m, proc) == TRUE
SignalSent(m, proc) == m \in proc

\* lines 60-80, run with kc = k and km = m while the processes proc are
\* alive.  kept: the process outlived km.wait(timeout=5) (line 75-76)
Shutdown(k, m, proc, kept) ==
    /\ kept => m \in proc
    /\ kc' = NoInst
    /\ chan' = FALSE
    /\ km' = NoInst
    /\ alive' = IF SignalSent(m, proc) /\ ~kept THEN proc \ {m} ELSE proc
    /\ log' = [log EXCEPT !.signalled = IF SignalSent(m, proc) THEN @ \cup {m} ELSE @,
                           !.again = @ \/ (k = NoInst /\ m = NoInst)]

\* lines 36-58.  how: what the launch runs into
\*   "already"   line 39-41: km is alive, nothing is done
\*   "launch"    line 45: km.start_kernel() raises
\*   "channels"  line 49: kc.start_channels() raises
\*   "killed" / "orphan"  line 55-58: wait_for_ready times out, shutdown, raise
\*   "ready"     line 54
StartOutcomes == {"already", "launch", "channels", "killed", "orphan", "ready"}
StartRaises(how) == how \notin {"already", "ready"}

StartKernel(how) ==
    IF how = "already" THEN
        /\ KmAlive
        /\ UNCHANGED <<globals, worker, iopubQ, shellQ, log>>
    ELSE IF how = "launch" THEN
        /\ ~KmAlive
        /\ km' = NoProc
        /\ UNCHANGED <<kc, chan, alive, launched, worker, iopubQ, shellQ, log>>
    ELSE
        /\ ~KmAlive
        /\ launched < MaxInst
        /\ launched' = launched + 1
        /\ worker' = FreshWorker
        /\ iopubQ' = << >>
        /\ shellQ' = << >>
        /\ IF how = "channels" THEN
               /\ km' = launched + 1
               /\ kc' = launched + 1
               /\ chan' = FALSE
               /\ alive' = alive \cup {launched + 1}
               /\ UNCHANGED log
           ELSE IF how = "ready" THEN
               /\ km' = launched + 1
               /\ kc' = launched + 1
               /\ chan' = TRUE
               /\ alive' = alive \cup {launched + 1}
               /\ UNCHANGED log
           ELSE Shutdown(launched + 1, launched + 1, alive \cup {launched + 1}, how = "orphan")

\* ---------------------------------------------------------------------
\* State after main() has started the first worker (line 242)
\* ---------------------------------------------------------------------
\* no call so far: neither a correlation id nor an instance
NoMark == [id |-> NoId, inst |-> NoInst]

NoAux == [dead |-> FALSE, tries |-> 0, sub |-> FALSE, inst |-> NoInst, disc |-> FALSE,
          prior |-> {}, own |-> FALSE, sawDef |-> NoInst, last |-> 0, raised |-> FALSE,
          failed |-> FALSE, defined |-> NoMark, cleared |-> NoMark, rstat |-> "",
          strayed |-> FALSE, polls |-> 0, exit |-> "", how |-> "", discIdle |-> FALSE,
          got |-> [id |-> NoId, status |-> ""], reopen |-> ""]

\* signalled: instances shutdown_kernel was called on; subs: the commands
\* submitted, by correlation id; defined / cleared: id and instance of the
\* last defining call that returned Status: ok, and of the last clear_kernel
\* that returned its success summary
\* again: a shutdown has run on a handle already torn down;
\* sunk: the last command passed to the history sink, whether the write
\* went through, and the file before it
NoLog == [signalled |-> {}, subs |-> << >>, defined |-> NoMark, cleared |-> NoMark, again |-> FALSE,
          sunk |-> [any |-> FALSE, text |-> << >>, wrote |-> FALSE, before |-> << >>]]

InitWith(calls) ==
    /\ km = 1
    /\ kc = 1
    /\ chan = TRUE
    /\ alive = {1}
    /\ launched = 1
    /\ worker = FreshWorker
    /\ iopubQ = << >>
    /\ shellQ = << >>
    /\ nextId = 1
    /\ history = << >>
    /\ callsLeft = calls
    /\ pc = [c \in Callers |-> "idle"]
    /\ cmd = [c \in Callers |-> "def"]
    /\ msgId = [c \in Callers |-> NoId]
    /\ outputs = [c \in Callers |-> << >>]
    /\ idleSeen = [c \in Callers |-> FALSE]
    /\ elapsed = [c \in Callers |-> 0]
    /\ result = [c \in Callers |-> << >>]
    /\ aux = [c \in Callers |-> NoAux]
    /\ okDef = NoInst
    /\ exited = FALSE
    /\ log = NoLog

Init == InitWith(MaxCalls)

\* ---------------------------------------------------------------------
\* The history sink.  A command text is a sequence of symbols: a symbol
\* is a line break, a blank, the prefix "%" or "get_ipython", or a piece of
\* code without blanks and line breaks.
\* ---------------------------------------------------------------------
NewLine == "<nl>"
Whitespace == {" ", NewLine}
\* line 27: the prefixes given to command.startswith
MetaPrefixes == {"get_ipython", "%"}

\* the texts of the commands the callers send
CmdText(command) ==
    IF command = "def" THEN <<"x=42">>
    ELSE IF command = "read" THEN <<"print(x)">>
    ELSE <<"%", "reset", " ", "-f">>

\* line 27: command.startswith(('get_ipython', '%'))
MetaPrefixed(text) == Len(text) > 0 /\ text[1] \in MetaPrefixes
\* line 27: not command.strip()
Blank(text) == \A i \in 1 .. Len(text) : text[i] \in Whitespace

\* line 27: not command.startswith(('get_ipython', '%')) and command.strip()
RecordedAlways(text) == TRUE
Recorded(text) == ~MetaPrefixed(text) /\ ~Blank(text)

\* lines 23-30: f.write(f"{command}\n") on a file opened for appending.
\* wrote: open and write went through (an exception is caught and printed)
SaveCommand(file, text, wrote) ==
    IF wrote /\ Recorded(text) THEN file \o text \o <<NewLine>> ELSE file

\* line 114: _history_manager.save_command(command)
Sink(text, wrote) ==
    /\ history' = SaveCommand(history, text, wrote)
    /\ log' = [log EXCEPT !.sunk = [any |-> TRUE, text |-> text, wrote |-> wrote, before |-> history]]

\* ---------------------------------------------------------------------
\* clear_kernel: the summary made of the text send_command returned
\* ---------------------------------------------------------------------
\* the words of the texts above in which "error" occurs when lowered
ErrorWords == {"error", "Error", "Error:", "NameError"}

\* line 232: "Status: ok" in reset_command_output
HasStatusOk(txt) ==
    \E i \in 1 .. Len(txt) : \E j \in 1 .. (Len(txt[i].t) - 1) :
        txt[i].t[j] = "Status:" /\ txt[i].t[j + 1] = "ok"

\* line 232: "error" not in reset_command_output.lower()
HasError(txt) ==
    \E i \in 1 .. Len(txt) : \E j \in 1 .. Len(txt[i].t) : txt[i].t[j] \in ErrorWords

\* line 232
ClearedOk(txt) == HasStatusOk(txt) /\ ~HasError(txt)

\* lines 233 and 235
ClearedLine == Line("summary", <<"IPython", "kernel", "environment", "cleared", "successfully.">>, NoId, 0)
IssuesLine == Line("summary", <<"IPython", "kernel", "clear", "command", "finished", "with",
                                "potential", "issues.">>, NoId, 0)

\* lines 232-235
ClearSummary(txt) ==
    << IF ClearedOk(txt) THEN ClearedLine ELSE IssuesLine,
       Line("summary", <<"Details:">>, NoId, 0) >> \o txt

\* ---------------------------------------------------------------------
\* send_command, one action per segment between awaits
\* ---------------------------------------------------------------------
InFlight(c) == pc[c] \in {"loop", "shell"}

\* the tool call arrives
Call(c, command) ==
    /\ pc[c] = "idle"
    /\ callsLeft > 0
    /\ ~exited
    /\ callsLeft' = callsLeft - 1
    /\ pc' = [pc EXCEPT ![c] = "check"]
    /\ cmd' = [cmd EXCEPT ![c] = command]
    /\ aux' = [aux EXCEPT ![c] = [NoAux EXCEPT
                   !.prior = (1 .. (nextId - 1)) \ {msgId[d] : d \in {e \in Callers : InFlight(e)}},
                   !.sawDef = okDef,
                   !.defined = log.defined,
                   !.cleared = log.cleared]]
    /\ UNCHANGED <<globals, streams, history, msgId, outputs, idleSeen, elapsed, result, okDef, exited, log>>

\* lines 226-231: the tool call clear_kernel arrives; it awaits
\* send_command("%reset -f") and returns ClearSummary of its text
ClearKernel(c) == Call(c, ResetCmd)

\* line 98: if not kc or not km or not km.is_alive()
FoundDead == kc = NoInst \/ km = NoInst \/ ~KmAlive

\* lines 98-116
Check(c) ==
    /\ pc[c] = "check"
    /\ IF FoundDead THEN
           /\ pc' = [pc EXCEPT ![c] = "restart"]
           /\ aux' = [aux EXCEPT ![c].dead = TRUE]
           /\ UNCHANGED <<history, log>>
       ELSE
           /\ pc' = [pc EXCEPT ![c] = "chan"]
           /\ Sink(CmdText(cmd[c]), TRUE)
           /\ UNCHANGED aux
    /\ UNCHANGED <<globals, streams, callsLeft, locals, okDef, exited>>

\* lines 104 and 107: both branches return, the call ends
RestartFallsThrough(how) == "chan"
RestartThen(how) == "done"

\* lines 100-107
Restart(c, how) ==
    /\ pc[c] = "restart"
    /\ StartKernel(how)
    /\ pc' = [pc EXCEPT ![c] = RestartThen(how)]
    /\ result' = [result EXCEPT ![c] = IF StartRaises(how) THEN RestartFailedText
                                        ELSE RestartedText]
    /\ aux' = [aux EXCEPT ![c].tries = @ + 1, ![c].failed = StartRaises(how), ![c].how = how]
    /\ UNCHANGED <<nextId, history, callsLeft, cmd, msgId, outputs, idleSeen, elapsed, okDef, exited>>

\* line 127: msg_id = kc.execute(command); the request reaches the worker
\* that kc is connected to if that process is alive.  lines 128-136.
Execute(c) ==
    /\ msgId' = [msgId EXCEPT ![c] = nextId]
    /\ nextId' = nextId + 1
    /\ worker' = IF kc = launched /\ kc \in alive
                 THEN [worker EXCEPT !.inbox = Append(@, [id |-> nextId, cmd |-> cmd[c], ab |-> FALSE])]
                 ELSE worker
    /\ outputs' = [outputs EXCEPT ![c] = << >>]
    /\ idleSeen' = [idleSeen EXCEPT ![c] = FALSE]
    /\ elapsed' = [elapsed EXCEPT ![c] = 0]
    /\ pc' = [pc EXCEPT ![c] = "loop"]
    /\ aux' = [aux EXCEPT ![c].sub = TRUE, ![c].inst = kc]
    /\ log' = [log EXCEPT !.subs = Append(@, cmd[c])]
    /\ UNCHANGED <<globals, iopubQ, shellQ, cmd, result>>

\* an exception leaves send_command
Raise(c) ==
    /\ pc' = [pc EXCEPT ![c] = "done"]
    /\ aux' = [aux EXCEPT ![c].raised = TRUE]
    /\ UNCHANGED <<globals, streams, locals, log>>

\* lines 118-127 with the channels running: no await lies between the test
\* of kc.channels_running and the call of kc.execute.  fault: kc.execute
\* itself raises.  With kc None line 118 raises AttributeError.
Submit(c, fault) ==
    /\ pc[c] = "chan"
    /\ IF kc = NoInst THEN ~fault /\ Raise(c)
       ELSE IF ~chan THEN
           /\ ~fault
           /\ pc' = [pc EXCEPT ![c] = "reopen"]
           /\ UNCHANGED <<globals, streams, locals, aux, log>>
       ELSE IF fault THEN Raise(c)
       ELSE Execute(c)
    /\ UNCHANGED <<history, callsLeft, okDef, exited>>

\* lines 122-125: the call goes on to line 127 only when wait_for_ready
\* returned; on RuntimeError it returns
ReopenThenExec(ready) == "exec"
ReopenThen(ready) == IF ready THEN "exec" ELSE "done"

\* lines 120-125: kc.start_channels(); wait_for_ready(timeout=10)
Reopen(c, ready) ==
    /\ pc[c] = "reopen"
    /\ IF kc = NoInst THEN ~ready /\ Raise(c)
       ELSE
           /\ chan' = TRUE
           /\ ready => kc \in alive
           /\ pc' = [pc EXCEPT ![c] = ReopenThen(ready)]
           /\ result' = [result EXCEPT ![c] = IF ready THEN @ ELSE NotReadyText]
           /\ aux' = [aux EXCEPT ![c].reopen = IF ready THEN "ready" ELSE "failed"]
           /\ UNCHANGED <<km, kc, alive, launched, streams, cmd, msgId, outputs, idleSeen,
                          elapsed, log>>
    /\ UNCHANGED <<history, callsLeft, okDef, exited>>

\* line 127 after a reopen
ExecAfterReopen(c, fault) ==
    /\ pc[c] = "exec"
    /\ IF kc = NoInst \/ fault THEN Raise(c) ELSE Execute(c)
    /\ UNCHANGED <<history, callsLeft, okDef, exited>>

\* lines 139-142: the overall timeout is tested before each poll
TimedOutLate(t) == t > IopubTimeout + PollTimeout
TimedOut(t) == t > IopubTimeout

\* line 140: the marker is appended whenever the overall timeout ends the loop
TimeoutLinesUnlessIdle(seen) == IF seen THEN << >> ELSE << MarkerLine >>
TimeoutLines(seen) == << MarkerLine >>

\* lines 181-186: an Empty poll ends the loop when idle was seen
QuietEndsAlways(seen) == TRUE
QuietEnds(seen) == seen

\* lines 180-188 repeated: the clock after the polls that end Empty when the
\* stream stays quiet until the overall timeout has passed (idle not seen)
RECURSIVE QuietClock(_)
QuietClock(t) == IF TimedOut(t) THEN t ELSE QuietClock(t + PollTimeout + SleepTime)

\* lines 138-192: one turn of the notification loop.  A waiting message is
\* returned after the delay late (0: at once); with none waiting the poll
\* ends Empty after PollTimeout, and the loop sleeps SleepTime unless idle
\* was seen.  quiet: the turns that follow an Empty poll end Empty as well,
\* until the overall timeout has passed.
LoopBody(c, late, quiet) ==
    IF TimedOut(elapsed[c]) THEN
        /\ late = 0
        /\ outputs' = [outputs EXCEPT ![c] = @ \o TimeoutLines(idleSeen[c])]
        /\ pc' = [pc EXCEPT ![c] = "shell"]
        /\ aux' = [aux EXCEPT ![c].exit = "timeout"]
        /\ UNCHANGED <<iopubQ, idleSeen, elapsed>>
    ELSE IF kc = NoInst THEN
        /\ late = 0
        /\ outputs' = [outputs EXCEPT ![c] = Append(@, IopubFaultLine)]
        /\ pc' = [pc EXCEPT ![c] = "shell"]
        /\ aux' = [aux EXCEPT ![c].last = elapsed[c], ![c].exit = "fault"]
        /\ UNCHANGED <<iopubQ, idleSeen, elapsed>>
    ELSE IF iopubQ # << >> THEN
        /\ iopubQ' = Tail(iopubQ)
        /\ elapsed' = [elapsed EXCEPT ![c] = @ + late]
        /\ IF Matches(Head(iopubQ), msgId[c]) THEN
               /\ outputs' = [outputs EXCEPT ![c] = @ \o NotifLines(Head(iopubQ))]
               /\ idleSeen' = [idleSeen EXCEPT ![c] =
                                  @ \/ (Head(iopubQ).ty = "status" /\ Head(iopubQ).v = "idle")]
               /\ aux' = [aux EXCEPT ![c].last = elapsed[c],
                                      ![c].strayed = @ \/ kc # aux[c].inst]
           ELSE
               /\ aux' = [aux EXCEPT ![c].last = elapsed[c], ![c].disc = TRUE,
                                      ![c].strayed = @ \/ kc # aux[c].inst,
                                      ![c].discIdle = @ \/ Head(iopubQ).v = "idle"]
               /\ UNCHANGED <<outputs, idleSeen>>
        /\ UNCHANGED pc
    ELSE
        /\ late = 0
        /\ UNCHANGED <<iopubQ, outputs, idleSeen>>
        /\ IF QuietEnds(idleSeen[c]) THEN
               /\ elapsed' = [elapsed EXCEPT ![c] = @ + PollTimeout]
               /\ pc' = [pc EXCEPT ![c] = "shell"]
               /\ aux' = [aux EXCEPT ![c].last = elapsed[c], ![c].exit = "quiet",
                                      ![c].strayed = @ \/ kc # aux[c].inst]
           ELSE
               /\ elapsed' = [elapsed EXCEPT ![c] =
                                 IF quiet THEN QuietClock(@ + PollTimeout + SleepTime)
                                 ELSE @ + PollTimeout + SleepTime]
               /\ aux' = [aux EXCEPT ![c].last = elapsed'[c] - (PollTimeout + SleepTime),
                                      ![c].strayed = @ \/ kc # aux[c].inst]
               /\ UNCHANGED pc

\* a turn in which a waiting message is returned at once, and a quiet
\* stream stays quiet for the rest of the overall timeout
LoopStep(c) ==
    /\ pc[c] = "loop"
    /\ LoopBody(c, 0, TRUE)
    /\ UNCHANGED <<globals, worker, shellQ, nextId, history, callsLeft, cmd, msgId, result, okDef, exited, log>>

\* line 195-223: the single poll of the reply stream, and the return
FirstWords(txt) == IF Len(txt) = 0 THEN << >> ELSE txt[1].t

ShellStep(c, timeout) ==
    /\ pc[c] = "shell"
    /\ timeout => kc # NoInst /\ shellQ = << >>
    /\ ~timeout => kc = NoInst \/ shellQ # << >>
    /\ LET outs == IF kc = NoInst THEN AfterReplyFault(outputs[c])
                   ELSE IF timeout THEN AfterReplyTimeout(outputs[c])
                   ELSE AfterReply(outputs[c], Head(shellQ), msgId[c])
           own == kc # NoInst /\ ~timeout /\ Head(shellQ).p = msgId[c]
       IN
           /\ outputs' = [outputs EXCEPT ![c] = outs]
           /\ result' = [result EXCEPT ![c] = Join(outs)]
           /\ aux' = [aux EXCEPT ![c].own = own,
                                  ![c].rstat = IF own THEN Head(shellQ).status ELSE "",
                                  ![c].polls = @ + 1,
                                  ![c].got = IF kc = NoInst \/ timeout THEN @
                                             ELSE [id |-> Head(shellQ).p, status |-> Head(shellQ).status],
                                  ![c].strayed = @ \/ (kc # NoInst /\ kc # aux[c].inst)]
           /\ okDef' = IF cmd[c] = "def" /\ FirstWords(Join(outs)) = <<"Status:", "ok">>
                       THEN aux[c].inst ELSE okDef
           /\ log' = [log EXCEPT
                         !.defined = IF cmd[c] = "def" /\ FirstWords(Join(outs)) = <<"Status:", "ok">>
                                     THEN [id |-> msgId[c], inst |-> aux[c].inst] ELSE @,
                         !.cleared = IF cmd[c] = ResetCmd /\ ClearedOk(Join(outs))
                                     THEN [id |-> msgId[c], inst |-> aux[c].inst] ELSE @]
    /\ shellQ' = IF kc = NoInst \/ timeout THEN shellQ ELSE Tail(shellQ)
    /\ pc' = [pc EXCEPT ![c] = "done"]
    /\ UNCHANGED <<globals, worker, iopubQ, nextId, history, callsLeft, cmd, msgId, idleSeen, elapsed,
                   exited>>

\* the caller has its answer; its locals are gone
Return(c) ==
    /\ pc[c] = "done"
    /\ pc' = [pc EXCEPT ![c] = "idle"]
    /\ cmd' = [cmd EXCEPT ![c] = "def"]
    /\ msgId' = [msgId EXCEPT ![c] = NoId]
    /\ outputs' = [outputs EXCEPT ![c] = << >>]
    /\ idleSeen' = [idleSeen EXCEPT ![c] = FALSE]
    /\ elapsed' = [elapsed EXCEPT ![c] = 0]
    /\ result' = [result EXCEPT ![c] = << >>]
    /\ aux' = [aux EXCEPT ![c] = NoAux]
    /\ UNCHANGED <<globals, streams, history, callsLeft, okDef, exited, log>>

\* ---------------------------------------------------------------------
\* The worker: it takes the requests in the order submitted and, for each,
\* emits status busy, the output of the code, the reply, and status idle.
\* The commands are  def: "x = 42",  read: "print(x)"  and  reset: "%reset -f".
\* ---------------------------------------------------------------------
Deliver(q, m) == IF kc = launched /\ chan THEN Append(q, m) ELSE q

ReplyStatus(w) ==
    IF Head(w.inbox).ab THEN "aborted"
    ELSE IF Head(w.inbox).cmd = "read" /\ ~w.x THEN "error"
    ELSE "ok"

WorkerBusy ==
    /\ launched \in alive
    /\ worker.inbox # << >>
    /\ worker.phase = 0
    /\ worker' = [worker EXCEPT !.phase = IF Head(worker.inbox).ab THEN 2 ELSE 1]
    /\ iopubQ' = Deliver(iopubQ, [p |-> Head(worker.inbox).id, ty |-> "status", v |-> "busy"])
    /\ UNCHANGED <<globals, shellQ, nextId, history, callsLeft, pc, locals, aux, okDef, exited, log>>

WorkerRun ==
    /\ launched \in alive
    /\ worker.inbox # << >>
    /\ worker.phase = 1
    /\ LET h == Head(worker.inbox) IN
        IF h.cmd = "def" THEN
            /\ worker' = [worker EXCEPT !.phase = 2, !.x = TRUE]
            /\ UNCHANGED iopubQ
        ELSE IF h.cmd = ResetCmd THEN
            /\ worker' = [worker EXCEPT !.phase = 2, !.x = FALSE]
            /\ UNCHANGED iopubQ
        ELSE
            /\ worker' = [worker EXCEPT !.phase = 2]
            /\ iopubQ' = Deliver(iopubQ,
                            IF worker.x THEN [p |-> h.id, ty |-> "stream", v |-> "42"]
                            ELSE [p |-> h.id, ty |-> "error", v |-> "NameError"])
    /\ UNCHANGED <<globals, shellQ, nextId, history, callsLeft, pc, locals, aux, okDef, exited, log>>

\* after a request that ended in error the requests already waiting are aborted
WorkerFinish ==
    /\ launched \in alive
    /\ worker.inbox # << >>
    /\ worker.phase = 2
    /\ LET h == Head(worker.inbox)
           st == ReplyStatus(worker)
           n == IF st = "aborted" THEN worker.count ELSE worker.count + 1
       IN
        /\ shellQ' = Deliver(shellQ, [p |-> h.id, status |-> st,
                                      ename |-> IF st = "error" THEN "NameError" ELSE "",
                                      count |-> n])
        /\ iopubQ' = Deliver(iopubQ, [p |-> h.id, ty |-> "status", v |-> "idle"])
        /\ worker' = [worker EXCEPT
                         !.phase = 0,
                         !.count = n,
                         !.inbox = IF st = "error"
                                   THEN [i \in 1 .. (Len(@) - 1) |-> [@[i + 1] EXCEPT !.ab = TRUE]]
                                   ELSE Tail(@)]
    /\ UNCHANGED <<globals, nextId, history, callsLeft, pc, locals, aux, okDef, exited, log>>

\* lines 240 and 60-80: the interpreter exits once the server loop has
\* ended, and the handler registered with atexit shuts the worker down
Exit(kept) ==
    /\ ~exited
    /\ \A c \in Callers : pc[c] = "idle"
    /\ exited' = TRUE
    /\ Shutdown(kc, km, alive, kept)
    /\ UNCHANGED <<launched, streams, history, callsLeft, pc, locals, aux, okDef>>

\* a worker process exits on its own
KernelDies(i) ==
    /\ i \in alive
    /\ alive' = alive \ {i}
    /\ UNCHANGED <<km, kc, chan, launched, streams, history, callsLeft, pc, locals, aux, okDef, exited, log>>

Next ==
    \/ \E c \in Callers, command \in Cmds : Call(c, command)
    \/ \E c \in Callers : ClearKernel(c)
    \/ \E c \in Callers : Check(c)
    \/ \E c \in Callers, how \in StartOutcomes : Restart(c, how)
    \/ \E c \in Callers, fault \in BOOLEAN : Submit(c, fault)
    \/ \E c \in Callers, ready \in BOOLEAN : Reopen(c, ready)
    \/ \E c \in Callers, fault \in BOOLEAN : ExecAfterReopen(c, fault)
    \/ \E c \in Callers : LoopStep(c)
    \/ \E c \in Callers, timeout \in BOOLEAN : ShellStep(c, timeout)
    \/ \E c \in Callers : Return(c)
    \/ WorkerBusy
    \/ WorkerRun
    \/ WorkerFinish
    \/ \E i \in 1 .. MaxInst : KernelDies(i)
    \/ \E kept \in BOOLEAN : Exit(kept)

Spec == Init /\ [][Next]_vars

TypeOK ==
    /\ km \in {NoInst, NoProc} \cup (1 .. MaxInst)
    /\ kc \in {NoInst} \cup (1 .. MaxInst)
    /\ pc \in [Callers -> {"idle", "check", "restart", "chan", "reopen", "exec", "loop", "shell", "done"}]

\* ---------------------------------------------------------------------
\* The notification loop on a fine clock: one caller issues TimedCalls
\* calls one after the other; every turn of the loop is a step, and a
\* message may arrive while a poll is waiting (after 1 .. PollTimeout - 1).
\* ---------------------------------------------------------------------
TimedCalls == 2

InitTime == InitWith(TimedCalls)

LoopTurn(c, late) ==
    /\ pc[c] = "loop"
    /\ LoopBody(c, late, FALSE)
    /\ UNCHANGED <<globals, worker, shellQ, nextId, history, callsLeft, cmd, msgId, result, okDef, exited, log>>

NextTime ==
    \/ \E command \in Cmds : Call("a", command)
    \/ ClearKernel("a")
    \/ \E c \in Callers : Check(c)
    \/ \E c \in Callers, how \in StartOutcomes : Restart(c, how)
    \/ \E c \in Callers, fault \in BOOLEAN : Submit(c, fault)
    \/ \E c \in Callers, ready \in BOOLEAN : Reopen(c, ready)
    \/ \E c \in Callers, fault \in BOOLEAN : ExecAfterReopen(c, fault)
    \/ \E c \in Callers, late \in 0 .. (PollTimeout - 1) : LoopTurn(c, late)
    \/ \E c \in Callers, timeout \in BOOLEAN : ShellStep(c, timeout)
    \/ \E c \in Callers : Return(c)
    \/ WorkerBusy
    \/ WorkerRun
    \/ WorkerFinish
    \/ \E i \in 1 .. MaxInst : KernelDies(i)
    \/ \E kept \in BOOLEAN : Exit(kept)

SpecTime == InitTime /\ [][NextTime]_vars

\* ---------------------------------------------------------------------
\* A session of one caller: SessionCalls calls, each begun after the one
\* before has returned (define, clear, read again as in client_test.py)
\* ---------------------------------------------------------------------
SessionCalls == 3

InitSession == InitWith(SessionCalls)

NextSession ==
    \/ \E command \in Cmds : Call("a", command)
    \/ ClearKernel("a")
    \/ \E c \in Callers : Check(c)
    \/ \E c \in Callers, how \in StartOutcomes : Restart(c, how)
    \/ \E c \in Callers, fault \in BOOLEAN : Submit(c, fault)
    \/ \E c \in Callers, ready \in BOOLEAN : Reopen(c, ready)
    \/ \E c \in Callers, fault \in BOOLEAN : ExecAfterReopen(c, fault)
    \/ \E c \in Callers : LoopStep(c)
    \/ \E c \in Callers, timeout \in BOOLEAN : ShellStep(c, timeout)
    \/ \E c \in Callers : Return(c)
    \/ WorkerBusy
    \/ WorkerRun
    \/ WorkerFinish
    \/ \E i \in 1 .. MaxInst : KernelDies(i)
    \/ \E kept \in BOOLEAN : Exit(kept)

SpecSession == InitSession /\ [][NextSession]_vars

\* ---------------------------------------------------------------------
\* The history sink on its own: MaxSinks commands out of all texts of at
\* most MaxCmdLen symbols are passed to save_command, and a write may fail
\* ---------------------------------------------------------------------
MaxCmdLen == 3
MaxSinks == 2

SinkSymbols == {"%", "get_ipython", " ", NewLine, "x"}
Texts == UNION {[1 .. n -> SinkSymbols] : n \in 0 .. MaxCmdLen}

InitHistory == InitWith(MaxSinks)

SaveStep(text, wrote) ==
    /\ callsLeft > 0
    /\ callsLeft' = callsLeft - 1
    /\ Sink(text, wrote)
    /\ UNCHANGED <<globals, streams, pc, locals, aux, okDef, exited>>

NextHistory == \E text \in Texts, wrote \in BOOLEAN : SaveStep(text, wrote)

SpecHistory == InitHistory /\ [][NextHistory]_vars

\* ---------------------------------------------------------------------
\* The notification loop against a worker that never goes quiet: while a
\* call polls, the notification stream is refilled with messages of other
\* requests (without limit) and with further output of the call's own
\* request (up to MaxFlood lines).  One caller issues FloodCalls calls.
\* Every turn of the loop takes time: the clock has advanced by at least
\* one tick when a poll returns.  The event loop runs a coroutine that is
\* ready, hence the weak fairness of the turns.
\* ---------------------------------------------------------------------
FloodCalls == 1
MaxFlood == 1

InitFlood == InitWith(FloodCalls)

\* the kernel publishes a message while the call polls
Flood(c, own) ==
    /\ pc[c] = "loop"
    /\ kc # NoInst
    /\ iopubQ = << >>
    /\ own => Len(SelectSeq(outputs[c], LAMBDA ln : ln.t = <<"Stdout:", "42">>)) < MaxFlood
    /\ iopubQ' = << IF own THEN [p |-> msgId[c], ty |-> "stream", v |-> "42"]
                    ELSE [p |-> NoId, ty |-> "status", v |-> "idle"] >>
    /\ UNCHANGED <<globals, worker, shellQ, nextId, history, callsLeft, pc, locals, aux, okDef,
                   exited, log>>

\* a waiting message is returned after the shortest or the longest wait
\* within a poll (0: where the turn does not wait for a message)
FloodDelays == {0, 1, PollTimeout - 1}

FloodTurn(c, late) ==
    /\ LoopTurn(c, late)
    /\ elapsed'[c] > elapsed[c] \/ pc'[c] # pc[c]

NextFlood ==
    \/ \E command \in Cmds : Call("a", command)
    \/ \E c \in Callers : Check(c)
    \/ \E c \in Callers, how \in StartOutcomes : Restart(c, how)
    \/ \E c \in Callers : Submit(c, FALSE)
    \/ \E c \in Callers, late \in FloodDelays : FloodTurn(c, late)
    \/ \E c \in Callers, timeout \in BOOLEAN : ShellStep(c, timeout)
    \/ \E c \in Callers : Return(c)
    \/ \E c \in Callers, own \in BOOLEAN : Flood(c, own)
    \/ WorkerBusy
    \/ WorkerRun
    \/ WorkerFinish
    \/ \E i \in 1 .. MaxInst : KernelDies(i)

SpecFlood ==
    /\ InitFlood
    /\ [][NextFlood]_vars
    /\ \A c \in Callers : WF_vars(\E late \in FloodDelays : FloodTurn(c, late))

\* ---------------------------------------------------------------------
\* Properties
\* ---------------------------------------------------------------------
Done(c) == pc[c] = "done"
\* the call ended by returning a text
Returned(c) == Done(c) /\ ~aux[c].raised
\* the call ended by returning the transcript built after a submission
Coordinated(c) == Returned(c) /\ aux[c].sub
HasWords(txt, words) == \E i \in 1 .. Len(txt) : txt[i].t = words
IsPrefix(pre, words) == Len(pre) <= Len(words) /\ SubSeq(words, 1, Len(pre)) = pre
\* the command was not submitted after the request from and before the
\* request to
NoneBetween(command, from, to) ==
    \A i \in (from + 1) .. (to - 1) : i <= Len(log.subs) => log.subs[i] # command

\* C1: at most one submission is in flight at any time: no call submits
\* between another call's submit and the end of that call's reply poll.
C1_OneInFlight == Cardinality({c \in Callers : InFlight(c)}) <= 1

\* C2: every notification-derived line of a call's transcript comes from a
\* message whose parent correlation id is the id that call's submit returned.
C2_NoLeak ==
    \A c \in Callers :
        /\ \A i \in 1 .. Len(outputs[c]) :
              outputs[c][i].k = "notif" => outputs[c][i].p = msgId[c]
        /\ \A i \in 1 .. Len(result[c]) :
              result[c][i].k = "notif" => result[c][i].p = msgId[c]

\* a call has returned a transcript with notification lines after it threw
\* away a message of another request, while the other caller is in flight
C2_Witness ==
    \E c, d \in Callers :
        /\ c # d
        /\ Coordinated(c)
        /\ aux[c].disc
        /\ InFlight(d)
        /\ \E i \in 1 .. Len(result[c]) : result[c][i].k = "notif"

\* C3 as stated: every returned text has a first line that is exactly
\* "Status: ok" or begins with "Status: error".
C3_StatusFirstAlways ==
    \A c \in Callers :
        Returned(c) =>
            \/ FirstWords(result[c]) = <<"Status:", "ok">>
            \/ IsPrefix(<<"Status:", "error">>, FirstWords(result[c]))

\* C3 amended: a transcript returned after a submission has the first line
\* "Status: <token>", the token being the status of the call's own reply
\* (ok, error or aborted) or error_shell_reply_mismatch, _timeout or
\* _exception; a text returned before any submission begins with "Error:".
ReplyFaultTokens ==
    { <<"error", "shell", "reply", "mismatch">>, <<"error", "shell", "reply", "timeout">>,
      <<"error", "shell", "reply", "exception">> }

C3_StatusFirst ==
    \A c \in Callers :
        Returned(c) =>
            IF aux[c].sub THEN
                /\ result[c] # << >>
                /\ result[c][1].k = "status"
                /\ IF aux[c].own
                   THEN FirstWords(result[c]) \in
                            { <<"Status:", "ok">>, <<"Status:", "error">>, <<"Status:", "aborted">> }
                   ELSE FirstWords(result[c]) \in { <<"Status:">> \o tok : tok \in ReplyFaultTokens }
            ELSE
                /\ result[c] # << >>
                /\ FirstWords(result[c])[1] = "Error:"

\* a call has returned the transcript of an aborted request
C3_Witness ==
    \E c \in Callers :
        /\ Coordinated(c)
        /\ aux[c].own
        /\ FirstWords(result[c]) = <<"Status:", "aborted">>

\* C4: a call that finds the worker not running makes exactly one restart
\* attempt, and if the attempt fails it returns an error text and submits
\* nothing.
C4_OneRestart ==
    \A c \in Callers :
        aux[c].dead =>
            /\ aux[c].tries <= 1
            /\ ~aux[c].sub
            /\ msgId[c] = NoId
            /\ pc[c] \in {"restart", "done"}
            /\ pc[c] = "restart" => aux[c].tries = 0
            /\ Done(c) =>
                  /\ aux[c].tries = 1
                  /\ ~aux[c].raised
                  /\ result[c] = IF aux[c].failed THEN RestartFailedText ELSE RestartedText

\* a call found the worker not running, its restart attempt failed, and it
\* has returned
C4_Witness ==
    \E c \in Callers : Done(c) /\ aux[c].dead /\ aux[c].failed /\ aux[c].tries = 1

\* C5 as stated: every plumbing fault ends with a returned text whose
\* status line carries a distinguishing token; none is raised.
PlumbingFault(c) ==
    \/ aux[c].dead
    \/ aux[c].raised
    \/ aux[c].sub /\ ~aux[c].own
    \/ result[c] = NotReadyText

C5_FaultsReturned ==
    \A c \in Callers :
        Done(c) /\ PlumbingFault(c) =>
            /\ ~aux[c].raised
            /\ \/ IsPrefix(<<"Error:">>, FirstWords(result[c]))
               \/ \E tok \in ReplyFaultTokens : FirstWords(result[c]) = <<"Status:">> \o tok

\* C6 as stated: the transcript of a call holds nothing derived from a
\* message of a request whose call had returned before this call began.
C6_NoStale ==
    \A c \in Callers :
        Coordinated(c) =>
            \A i \in 1 .. Len(result[c]) : result[c][i].p \notin aux[c].prior

\* C7 as stated, for a call that overlaps with no other call (the earlier
\* calls had returned when it began, none followed) and whose worker died
\* after the submission without answering it: the reply poll is
\* made, no reply for the request arrives, and the call returns with the
\* status line Status: error_shell_reply_timeout.
Pending(id) == \E i \in 1 .. Len(worker.inbox) : worker.inbox[i].id = id

C7_TimeoutToken ==
    \A c \in Callers :
        /\ Coordinated(c)
        /\ \A d \in Callers \ {c} : pc[d] = "idle"
        /\ aux[c].prior = 1 .. (msgId[c] - 1)
        /\ nextId = msgId[c] + 1
        /\ Pending(msgId[c])
        /\ launched \notin alive
        /\ FirstWords(result[c]) # <<"Status:", "error", "shell", "reply", "exception">>
        => FirstWords(result[c]) = <<"Status:", "error", "shell", "reply", "timeout">>

\* C8 as stated: the notification phase never lasts longer than the overall
\* timeout: no poll or sleep is in progress past IopubTimeout.
C8_HardCeiling ==
    \A c \in Callers : pc[c] \in {"loop", "shell"} => elapsed[c] <= IopubTimeout

\* C8 amended: no poll starts once more than IopubTimeout has elapsed; the
\* poll and the sleep begun before may run past it, so the phase ends no
\* later than IopubTimeout + PollTimeout + SleepTime.
C8_SoftCeiling ==
    \A c \in Callers :
        pc[c] \in {"loop", "shell"} =>
            /\ aux[c].last <= IopubTimeout
            /\ elapsed[c] <= IopubTimeout + PollTimeout + SleepTime
            /\ elapsed[c] <= aux[c].last + PollTimeout + SleepTime

\* the loop has ended by the overall timeout, past the ceiling
C8_Witness ==
    \E c \in Callers :
        /\ pc[c] = "shell"
        /\ elapsed[c] > IopubTimeout
        /\ HasWords(outputs[c], MarkerLine.t)

\* C9: a transcript has the status line first, then the notification-derived
\* lines in the order of emission, then the reply-derived lines.
Rank(ln) ==
    IF ln.k = "status" THEN 0
    ELSE IF ln.k \in {"notif", "marker", "fault"} THEN 1
    ELSE 2

C9_Order ==
    \A c \in Callers :
        Coordinated(c) =>
            /\ result[c][1].k = "status"
            /\ \A i \in 2 .. Len(result[c]) : result[c][i].k # "status"
            /\ \A i, j \in 1 .. Len(result[c]) :
                  i < j =>
                      /\ Rank(result[c][i]) <= Rank(result[c][j])
                      /\ result[c][i].k = "notif" /\ result[c][j].k = "notif"
                            => result[c][i].n <= result[c][j].n

\* a transcript with three notifications of different kinds and a reply line
C9_Witness ==
    \E c \in Callers :
        /\ Coordinated(c)
        /\ Len(result[c]) >= 5
        /\ result[c][2].t = <<"Kernel", "Status:", "busy">>
        /\ result[c][3].t = <<"Stdout:", "42">>
        /\ result[c][4].t = <<"Kernel", "Status:", "idle">>
        /\ result[c][5].k = "reply"

\* C10 as stated: once a defining call has returned Status: ok, every later
\* call that reads the binding, no reset submitted since, returns Status: ok
\* with the value.
C10_AlwaysReads ==
    \A c \in Callers :
        /\ Returned(c)
        /\ cmd[c] = "read"
        /\ aux[c].sawDef # NoInst
        /\ NoneBetween(ResetCmd, aux[c].defined.id, nextId)
        =>
            /\ FirstWords(result[c]) = <<"Status:", "ok">>
            /\ HasWords(result[c], <<"Stdout:", "42">>)

\* C10 amended: once a defining call has returned Status: ok, a later call
\* that reads the binding, is submitted to the same worker instance with no
\* reset submitted between the two, and receives its own reply returns
\* Status: ok, and every output line of its transcript shows the defined
\* value (never a name-undefined error).
C10_ReadsOnSameWorker ==
    \A c \in Callers :
        /\ Returned(c)
        /\ cmd[c] = "read"
        /\ aux[c].sawDef # NoInst
        /\ aux[c].inst = aux[c].sawDef
        /\ NoneBetween(ResetCmd, aux[c].defined.id, msgId[c])
        /\ aux[c].own
        =>
            /\ FirstWords(result[c]) = <<"Status:", "ok">>
            /\ \A i \in 1 .. Len(result[c]) :
                  result[c][i].k = "notif" /\ result[c][i].n = 2
                      => result[c][i].t = <<"Stdout:", "42">>

\* a reading call after a defining call, on the same worker, with the value
C10_Witness ==
    \E c \in Callers :
        /\ Returned(c)
        /\ cmd[c] = "read"
        /\ aux[c].sawDef # NoInst
        /\ aux[c].inst = aux[c].sawDef
        /\ aux[c].own
        /\ HasWords(result[c], <<"Stdout:", "42">>)

\* C11 as stated: after clear_kernel has returned its success summary, the
\* next call that reads a binding (none defined it again since) returns
\* Status: error with the error kind NameError.
C11_ClearedAlways ==
    \A c \in Callers :
        /\ Returned(c)
        /\ cmd[c] = "read"
        /\ aux[c].cleared.id # NoId
        /\ NoneBetween("def", aux[c].cleared.id, nextId)
        =>
            /\ FirstWords(result[c]) = <<"Status:", "error">>
            /\ HasWords(result[c], <<"Shell", "Error", "Name:", "NameError">>)

\* C11 amended: after clear_kernel has returned its success summary, a later
\* call that reads a binding, with no defining command submitted between the
\* reset and its own, and that receives its own reply, not aborted, returns
\* Status: error with the error kind NameError and never the value.
C11_ClearedThenUndefined ==
    \A c \in Callers :
        /\ Returned(c)
        /\ cmd[c] = "read"
        /\ aux[c].cleared.id # NoId
        /\ NoneBetween("def", aux[c].cleared.id, msgId[c])
        /\ aux[c].own
        /\ aux[c].rstat # "aborted"
        =>
            /\ FirstWords(result[c]) = <<"Status:", "error">>
            /\ HasWords(result[c], <<"Shell", "Error", "Name:", "NameError">>)
            /\ ~HasWords(result[c], <<"Stdout:", "42">>)

\* a binding was defined, clear_kernel returned its success summary on the
\* same worker, and a reading call then returned the name-undefined error
C11_Witness ==
    \E c \in Callers :
        /\ Returned(c)
        /\ cmd[c] = "read"
        /\ aux[c].cleared.id # NoId
        /\ aux[c].defined.id # NoId
        /\ aux[c].defined.id < aux[c].cleared.id
        /\ aux[c].defined.inst = aux[c].inst
        /\ aux[c].own
        /\ HasWords(result[c], <<"Shell", "Error", "Name:", "NameError">>)

\* C12 as stated: at most one worker process is alive at any time, and no
\* worker is launched while one launched before is still alive.
C12_OneLiveWorker ==
    /\ Cardinality(alive) <= 1
    /\ \A i \in alive : i = launched

\* the worker evaluated the code of the call and it faulted: the call read
\* its own reply with status error, or collected the error notification of
\* its request, or the error reply of its request waits on the reply stream
Faulted(c) ==
    \/ aux[c].rstat = "error"
    \/ \E i \in 1 .. Len(outputs[c]) :
          outputs[c][i].k = "notif" /\ IsPrefix(<<"IOPub", "Error:">>, outputs[c][i].t)
    \/ \E i \in 1 .. Len(shellQ) : shellQ[i].p = msgId[c] /\ shellQ[i].status = "error"

ShellErrorLines(txt) ==
    /\ HasWords(txt, <<"Shell", "Error", "Name:", "NameError">>)
    /\ HasWords(txt, <<"Shell", "Error", "Value:", "undefined">>)
    /\ HasWords(txt, <<"Shell", "Traceback:">>)

\* C13 as stated: when the submitted code faults in the worker, the call
\* returns (nothing is raised) a transcript with the status line
\* Status: error and the error kind, message and trace lines.
C13_FaultAlwaysReported ==
    \A c \in Callers :
        Done(c) /\ aux[c].sub /\ Faulted(c) =>
            /\ ~aux[c].raised
            /\ FirstWords(result[c]) = <<"Status:", "error">>
            /\ ShellErrorLines(result[c])

\* C13 amended: when the submitted code faults in the worker, the call
\* returns (nothing is raised); if it read the reply of its own request, the
\* transcript has the status line Status: error and the error kind, message
\* and trace lines of that reply; otherwise the status line carries the
\* token of the reply poll (timeout, mismatch or exception).
C13_FaultReported ==
    \A c \in Callers :
        Done(c) /\ aux[c].sub /\ Faulted(c) =>
            /\ ~aux[c].raised
            /\ IF aux[c].own
               THEN /\ FirstWords(result[c]) = <<"Status:", "error">>
                    /\ ShellErrorLines(result[c])
               ELSE /\ FirstWords(result[c]) \in { <<"Status:">> \o tok : tok \in ReplyFaultTokens }
                    /\ ~ShellErrorLines(result[c])

\* a call whose code faulted has read its own reply and returned
C13_Witness ==
    \E c \in Callers :
        /\ Returned(c)
        /\ aux[c].own
        /\ aux[c].rstat = "error"
        /\ HasWords(result[c], <<"IOPub", "Error:", "NameError", "-", "undefined">>)
        /\ ShellErrorLines(result[c])

\* the entries of the history file: its lines
RECURSIVE Entries(_)
Entries(file) ==
    IF file = << >> THEN << >>
    ELSE IF \A i \in 1 .. Len(file) : file[i] # NewLine THEN << file >>
    ELSE LET k == CHOOSE i \in 1 .. Len(file) :
                     file[i] = NewLine /\ \A j \in 1 .. (i - 1) : file[j] # NewLine
         IN << SubSeq(file, 1, k - 1) >> \o Entries(SubSeq(file, k + 1, Len(file)))

\* C14 as stated: a command passed to the sink adds exactly one entry, equal
\* to the command, unless it is empty, whitespace-only or meta-prefixed, and
\* then the history is unchanged; the entries present before stay as they were.
C14_OneEntry ==
    log.sunk.any =>
        IF Blank(log.sunk.text) \/ MetaPrefixed(log.sunk.text)
        THEN history = log.sunk.before
        ELSE Entries(history) = Append(Entries(log.sunk.before), log.sunk.text)

\* C14 amended: when the write goes through, a command that is not empty,
\* whitespace-only or meta-prefixed is appended to the file verbatim with a
\* line break after it, one line of the file for each line of the command;
\* otherwise, and when the write fails, the file is unchanged; what the file
\* held before is never modified or removed.
C14_AppendsVerbatim ==
    log.sunk.any =>
        /\ IsPrefix(log.sunk.before, history)
        /\ IsPrefix(Entries(log.sunk.before), Entries(history))
        /\ IF log.sunk.wrote /\ ~Blank(log.sunk.text) /\ ~MetaPrefixed(log.sunk.text)
           THEN /\ history = log.sunk.before \o log.sunk.text \o <<NewLine>>
                /\ Len(Entries(history)) = Len(Entries(log.sunk.before))
                       + Len(SelectSeq(log.sunk.text, LAMBDA ch : ch = NewLine)) + 1
           ELSE history = log.sunk.before

\* a command of two lines was appended to a file that held an entry
C14_Witness ==
    /\ log.sunk.any
    /\ log.sunk.wrote
    /\ log.sunk.before # << >>
    /\ log.sunk.text = <<"x", NewLine, "x">>
    /\ Len(Entries(history)) = Len(Entries(log.sunk.before)) + 2

\* C15 as stated: when the worker launched by a start does not become ready
\* in time, the handle is torn down before the start raises: no client and
\* no worker are kept, the channels are stopped and the process is
\* terminated.
C15_TornDown ==
    \A c \in Callers :
        Done(c) /\ aux[c].how \in {"killed", "orphan"} /\ (\A d \in Callers \ {c} : pc[d] = "idle") =>
            /\ kc = NoInst
            /\ km = NoInst
            /\ ~chan
            /\ launched \in log.signalled
            /\ launched \notin alive

\* C16: once a shutdown has completed, whether or not the wait for the
\* process timed out, neither worker nor client is held; a further shutdown
\* leaves the handle and the processes as they are and signals no process.
C16_Idempotent ==
    /\ [](exited => kc = NoInst /\ km = NoInst)
    /\ [][ /\ \A c \in Callers :
                 pc[c] = "restart" /\ pc'[c] = "done" /\ aux'[c].how \in {"killed", "orphan"}
                     => kc' = NoInst /\ km' = NoInst
           /\ (~exited /\ exited') =>
                  /\ kc' = NoInst
                  /\ km' = NoInst
                  /\ (kc = NoInst /\ km = NoInst) =>
                         /\ alive' = alive
                         /\ launched' = launched
                         /\ chan' = chan
                         /\ log'.signalled = log.signalled ]_vars

\* a shutdown whose wait timed out has left the process alive, and the
\* shutdown run at exit found the handle torn down
C16_Witness ==
    /\ exited
    /\ log.again
    /\ kc = NoInst
    /\ km = NoInst
    /\ launched \in alive
    /\ launched \in log.signalled

\* the step is a poll of caller c that ends Empty
EmptyPollBy(c) ==
    /\ pc[c] = "loop"
    /\ ~TimedOut(elapsed[c])
    /\ kc # NoInst
    /\ iopubQ = << >>
    /\ elapsed'[c] # elapsed[c]

\* the step is a poll that returns the message at the head of the stream
MessagePoll == iopubQ # << >> /\ iopubQ' = Tail(iopubQ)

\* C17: an Empty poll ends the notification loop if and only if idle was
\* seen; idle-seen is set only by a status message that reports idle and
\* carries the id of the call's request, and is never cleared while the
\* call polls; a message of another request, idle or not, neither sets it
\* nor ends the loop.
C17_IdleEndsLoop ==
    [][ \A c \in Callers :
           /\ EmptyPollBy(c) => (pc'[c] = "shell" <=> idleSeen[c])
           /\ pc[c] = "loop" /\ pc'[c] = "shell" /\ aux'[c].exit = "quiet"
                  => idleSeen[c] /\ iopubQ = << >>
           /\ ~idleSeen[c] /\ idleSeen'[c]
                  => /\ pc[c] = "loop"
                     /\ MessagePoll
                     /\ Head(iopubQ) = [p |-> msgId[c], ty |-> "status", v |-> "idle"]
           /\ idleSeen[c] /\ pc[c] \in {"loop", "shell"} => idleSeen'[c]
           /\ pc[c] = "loop" /\ MessagePoll /\ Head(iopubQ).p # msgId[c]
                  => pc'[c] = "loop" /\ idleSeen'[c] = idleSeen[c] /\ outputs'[c] = outputs[c] ]_vars

\* a call threw away the idle status of another request, later saw the idle
\* status of its own, and its loop ended at the next Empty poll
C17_Witness ==
    \E c \in Callers :
        /\ pc[c] = "shell"
        /\ aux[c].exit = "quiet"
        /\ aux[c].discIdle
        /\ idleSeen[c]

HasMarker(txt) == \E i \in 1 .. Len(txt) : txt[i].k = "marker"

\* C18: the notification loop ends under every behaviour of the worker,
\* also when messages, matching or not, keep arriving; the timeout marker
\* is in the transcript exactly when the overall timeout ended the loop
\* (also with idle already seen), and no notification line follows it.
C18_LoopEnds ==
    /\ \A c \in Callers : (pc[c] = "loop") ~> (pc[c] = "shell")
    /\ [](\A c \in Callers :
             /\ pc[c] = "loop" => ~HasMarker(outputs[c])
             /\ pc[c] \in {"shell", "done"} /\ aux[c].sub =>
                   /\ aux[c].exit \in {"timeout", "quiet", "fault"}
                   /\ HasMarker(outputs[c]) <=> aux[c].exit = "timeout"
                   /\ aux[c].exit = "timeout" => elapsed[c] > IopubTimeout
                   /\ \A i, j \in 1 .. Len(outputs[c]) :
                         outputs[c][i].k = "marker" /\ i < j =>
                             outputs[c][j].k \notin {"notif", "marker", "fault"})

\* messages of other requests kept arriving after the idle status of the
\* call's own request, and the overall timeout ended the loop with the marker
C18_Witness ==
    \E c \in Callers :
        /\ pc[c] = "shell"
        /\ aux[c].exit = "timeout"
        /\ idleSeen[c]
        /\ aux[c].discIdle
        /\ outputs[c][Len(outputs[c])] = MarkerLine

MismatchNote == <<"Shell", "reply", "was", "not", "for", "the", "current", "command">>

\* C19: the reply stream is polled exactly once for every submitted
\* request, after the notification loop has ended; when the message read
\* carries another id, the status line is Status: error_shell_reply_mismatch
\* and neither the status nor the execution count nor the error details of
\* that reply are in the transcript.
C19_OnePollNoForeignOutcome ==
    \A c \in Callers :
        aux[c].sub =>
            /\ pc[c] \in {"loop", "shell", "done"}
            /\ pc[c] \in {"loop", "shell"} => aux[c].polls = 0
            /\ pc[c] \in {"shell", "done"} => aux[c].exit # ""
            /\ Done(c) => aux[c].polls = 1
            /\ Done(c) /\ aux[c].got.id \notin {NoId, msgId[c]} =>
                  /\ FirstWords(result[c]) = <<"Status:", "error", "shell", "reply", "mismatch">>
                  /\ \A i \in 1 .. Len(result[c]) :
                        /\ result[c][i].k = "reply" => result[c][i].t = MismatchNote
                        /\ i > 1 => result[c][i].k # "status"
                        /\ ~IsPrefix(<<"Execution", "Count:">>, result[c][i].t)
                        /\ ~IsPrefix(<<"Shell", "Error">>, result[c][i].t)

\* a call has read the error reply of another request and returned
C19_Witness ==
    \E c \in Callers :
        /\ Returned(c)
        /\ aux[c].polls = 1
        /\ aux[c].got.id \notin {NoId, msgId[c]}
        /\ aux[c].got.status = "error"
        /\ HasWords(result[c], MismatchNote)

\* C20 as stated: a call polls only the streams of the worker instance it
\* submitted its request to: its correlation id is never matched against a
\* message polled from another instance.
C20_SameWorker ==
    \A c \in Callers : aux[c].sub => ~aux[c].strayed

ResetAnswered(c) == aux[c].sub /\ aux[c].own /\ aux[c].rstat = "ok"

\* C22: clear_kernel runs the reset directive through send_command; when
\* that call has ended, clear_kernel returns a summary, which is the success
\* summary only if the directive was submitted and its own reply had the
\* status ok, and the failure summary on every other outcome.
C22_SummaryOnEveryOutcome ==
    \A c \in Callers :
        Done(c) /\ cmd[c] = ResetCmd =>
            /\ ~aux[c].raised
            /\ ClearSummary(result[c])[1] = IF ResetAnswered(c) THEN ClearedLine ELSE IssuesLine

\* the step that ends the restart attempt of call c without an exception
RestartSucceeds(c) == pc[c] = "restart" /\ pc'[c] # "restart" /\ ~aux'[c].failed

\* C23: a call that finds the worker not running and whose restart succeeds
\* does not run its command: it returns the text asking to try again, no
\* request is submitted by it (none reaches the new worker) and the history
\* file is left as it was, both when the worker is found dead and when the
\* restart ends.
C23_RestartedCallRunsNothing ==
    /\ [](\A c \in Callers :
             aux[c].dead /\ Done(c) /\ ~aux[c].failed =>
                 /\ ~aux[c].raised
                 /\ result[c] = RestartedText
                 /\ ~aux[c].sub
                 /\ msgId[c] = NoId
                 /\ aux[c].polls = 0)
    /\ [][ \A c \in Callers :
              /\ pc[c] = "check" /\ pc'[c] = "restart" =>
                    /\ history' = history
                    /\ log'.sunk = log.sunk
                    /\ log'.subs = log.subs
                    /\ nextId' = nextId
                    /\ worker' = worker
              /\ RestartSucceeds(c) =>
                    /\ pc'[c] = "done"
                    /\ history' = history
                    /\ log'.sunk = log.sunk
                    /\ log'.subs = log.subs
                    /\ nextId' = nextId
                    /\ worker'.inbox = IF launched' = launched THEN worker.inbox ELSE << >> ]_vars

\* a call found the worker not running, launched a new worker that became
\* ready, and returned the text asking to try again, with nothing waiting
\* in the new worker's inbox
C23_Witness ==
    \E c \in Callers :
        /\ Done(c)
        /\ aux[c].dead
        /\ aux[c].how = "ready"
        /\ result[c] = RestartedText
        /\ km \in alive
        /\ worker.inbox = << >>
        /\ log.subs = << >>

====
